---- MODULE Spec2Model ----
(***************************************************************************)
(* Sparse-vector binary codec of milvus-sdk-rust (src/sparse.rs).          *)
(*                                                                         *)
(* A SparseVector is a sequence of (index, value) pairs, index a u32 and   *)
(* value an f32.  A 32-bit or 64-bit integer is the pair <<hi, lo>> of its  *)
(* bits above the low 16 and its low 16 bits, hi * 65536 + lo with lo in   *)
(* 0..65535: the model checker's own integers are 32-bit signed and cannot *)
(* hold a u32.  An f32 is represented by its IEEE-754 bit pattern (the   *)
(* u32 that f32::to_bits returns): to_le_bytes / from_le_bytes of an f32   *)
(* are exactly the little-endian bytes of that pattern, and two non-NaN    *)
(* values with the same pattern are equal.                                 *)
(*                                                                         *)
(* A Result<T> is the record [ok, val, err]: Ok(v) carries v, and          *)
(* Err(n) stands for Error::SparseVectorError("... got n") and carries the *)
(* length n that the message reports.                                      *)
(***************************************************************************)
EXTENDS Integers, Sequences, FiniteSets, TLC

VARIABLES
    pc,          \* which call the caller has made so far
    input_row,   \* the row as the caller built it, before sparse_row_to_bytes
    row,         \* the caller's row, passed as &mut to sparse_row_to_bytes
    bytes,       \* a row buffer: returned by sparse_row_to_bytes, or received
    decoded,     \* Result<SparseVector> of sparse_row_from_bytes(bytes)
    vectors,     \* the batch handed to sparse_vectors_to_proto
    proto,       \* a SparseFloatArray: built by the encoder, or received
    parsed,      \* Result<Vec<SparseVector>> of sparse_proto_to_vectors(proto)
    twin,        \* a second message with proto's contents and another dim
    twin_parsed, \* Result of sparse_proto_to_vectors(twin)
    proto2       \* the message obtained by encoding the parsed rows again

vars == <<pc, input_row, row, bytes, decoded, vectors, proto, parsed,
          twin, twin_parsed, proto2>>

----------------------------------------------------------------------------
(* Bounds of the model *)

\* most rows in a batch
MaxRows == 2
\* most buffers in a received message
MaxBuffers == 3
\* most entries in a row, and in all rows of a batch or message together
MaxEntries == 3

(* Constants of the program *)

\* one 8-byte record per entry: chunks_exact(8), len() % 8
ChunkLen == 8
\* a byte holds 0..255
ByteRange == 256
\* a 16-bit half of a u32 holds 0..65535
HalfRange == 65536

\* u32 indices the caller uses: two low ones whose bytes differ in every
\* position order, and the largest valid one, 2^32 - 2
\* 3, 0x0001FFFF and 0xFFFFFFFE
Indices == {<<0, 3>>, <<1, 65535>>, <<65535, 65534>>}
\* f32 values by bit pattern: 0.1 = 0x3DCCCCCD, -2.5 = 0xC0200000
Values == {<<15820, 52429>>, <<49184, 0>>}
Entries == Indices \X Values

\* records a received buffer is made of
WireEntries == {<<<<1, 65535>>, <<15820, 52429>>>>, <<<<0, 3>>, <<49184, 0>>>>}
\* bytes missing at the end of a received buffer (0: well-formed)
WireCuts == {0, 1, 7}
\* dim values of a received message: negative, zero, positive
\* -1, 0 and 259
Dims == {<<-1, 65535>>, <<0, 0>>, <<0, 259>>}

----------------------------------------------------------------------------
(* Result<T> *)

Ok(v) == [ok |-> TRUE, val |-> v, err |-> 0]
Err(n) == [ok |-> FALSE, val |-> <<>>, err |-> n]

\* nothing computed yet
None == [ok |-> FALSE, val |-> <<>>, err |-> -1]
NoProto == [contents |-> <<>>, dim |-> <<-1, 0>>]

----------------------------------------------------------------------------
(* Integers wider than 16 bits *)

\* a < b and a <= b on u32 (the Ord of the sort key) and on i64
Less(a, b) == a[1] < b[1] \/ (a[1] = b[1] /\ a[2] < b[2])
LessEq(a, b) == a = b \/ Less(a, b)

\* (x as i64) + 1: the carry goes into the high part, which is not cut at 32 bits
PlusOne(x) == IF x[2] = HalfRange - 1 THEN <<x[1] + 1, 0>> ELSE <<x[1], x[2] + 1>>

\* 0i64
Zero == <<0, 0>>

----------------------------------------------------------------------------
(* Little-endian conversions of the standard library *)

to_le_bytes_be(x) ==
    << x[1] \div ByteRange, x[1] % ByteRange, x[2] \div ByteRange, x[2] % ByteRange >>

\* u32::to_le_bytes, and f32::to_le_bytes on the bit pattern
to_le_bytes(x) ==
    << x[2] % ByteRange, x[2] \div ByteRange, x[1] % ByteRange, x[1] \div ByteRange >>

from_le_bytes_be(b) == << b[2] + ByteRange * b[1], b[4] + ByteRange * b[3] >>

\* u32::from_le_bytes, and f32::from_le_bytes giving the bit pattern
from_le_bytes(b) == << b[3] + ByteRange * b[4], b[1] + ByteRange * b[2] >>

----------------------------------------------------------------------------
(* Vec::sort_by_key(|(idx, _)| *idx): a stable sort, ascending by index *)

\* s is sorted; e goes after every element whose key is <= its own
InsertAfterEqual(s, e) ==
    LET p == Cardinality({j \in 1..Len(s) : LessEq(s[j][1], e[1])})
    IN  SubSeq(s, 1, p) \o <<e>> \o SubSeq(s, p + 1, Len(s))

\* s is sorted; e goes before every element whose key is >= its own
InsertBeforeEqual(s, e) ==
    LET p == Cardinality({j \in 1..Len(s) : Less(s[j][1], e[1])})
    IN  SubSeq(s, 1, p) \o <<e>> \o SubSeq(s, p + 1, Len(s))

RECURSIVE sort_by_key_unstable(_)
sort_by_key_unstable(r) ==
    IF r = <<>> THEN <<>>
    ELSE InsertBeforeEqual(sort_by_key_unstable(SubSeq(r, 1, Len(r) - 1)), r[Len(r)])

sort_by_key_skipped(r) == r

\* sorts, and keeps only the first entry of each index
RECURSIVE sort_by_key_dedup(_)
sort_by_key_dedup(r) ==
    IF r = <<>> THEN <<>>
    ELSE LET s == sort_by_key_dedup(SubSeq(r, 1, Len(r) - 1))
             e == r[Len(r)]
         IN  IF \E j \in 1..Len(s) : s[j][1] = e[1] THEN s
             ELSE InsertAfterEqual(s, e)

RECURSIVE sort_by_key(_)
sort_by_key(r) ==
    IF r = <<>> THEN <<>>
    ELSE InsertAfterEqual(sort_by_key(SubSeq(r, 1, Len(r) - 1)), r[Len(r)])

----------------------------------------------------------------------------
(* sparse_row_to_bytes *)

\* the loop over row.iter(): index bytes, then value bytes, per entry
RECURSIVE extend_bytes(_)
extend_bytes(r) ==
    IF r = <<>> THEN <<>>
    ELSE to_le_bytes(r[1][1]) \o to_le_bytes(r[1][2]) \o extend_bytes(Tail(r))

\* returns the buffer, and the row as the call leaves it (&mut)
sparse_row_to_bytes(r) ==
    LET sorted == sort_by_key(r)
    IN  [row |-> sorted, bytes |-> extend_bytes(sorted)]

----------------------------------------------------------------------------
(* sparse_row_from_bytes *)

length_check_rounding_down(b) == FALSE

\* bytes.len() % 8 != 0
length_check_fails(b) == Len(b) % ChunkLen # 0

\* one chunk of chunks_exact(8)
chunk_entry(b, k) ==
    LET o == ChunkLen * (k - 1)
    IN  << from_le_bytes(<<b[o + 1], b[o + 2], b[o + 3], b[o + 4]>>),
           from_le_bytes(<<b[o + 5], b[o + 6], b[o + 7], b[o + 8]>>) >>

chunks_sorted(b) ==
    sort_by_key([k \in 1..(Len(b) \div ChunkLen) |-> chunk_entry(b, k)])

\* the loop over bytes.chunks_exact(8), pushing in chunk order
chunks(b) == [k \in 1..(Len(b) \div ChunkLen) |-> chunk_entry(b, k)]

sparse_row_from_bytes(b) ==
    IF length_check_fails(b) THEN Err(Len(b)) ELSE Ok(chunks(b))

----------------------------------------------------------------------------
(* sparse_vectors_to_proto *)

\* i64::max
Max(a, b) == IF LessEq(b, a) THEN a ELSE b

update_max_dim_last_row(max_dim, sorted) ==
    IF sorted # <<>> THEN PlusOne(sorted[Len(sorted)][1]) ELSE max_dim

\* if let Some((max_idx, _)) = row.last() { max_dim = max_dim.max(idx as i64 + 1) }
\* an i64: the largest value, 2^32, is far from overflow
update_max_dim(max_dim, sorted) ==
    IF sorted # <<>> THEN Max(max_dim, PlusOne(sorted[Len(sorted)][1])) ELSE max_dim

\* for mut row in vectors { ... }, from row i on
RECURSIVE encode_loop(_, _, _, _)
encode_loop(vs, i, contents, max_dim) ==
    IF i > Len(vs) THEN [contents |-> contents, dim |-> max_dim]
    ELSE LET r == sparse_row_to_bytes(vs[i])
         IN  encode_loop(vs, i + 1, Append(contents, r.bytes),
                         update_max_dim(max_dim, r.row))

sparse_vectors_to_proto(vs) == encode_loop(vs, 1, <<>>, Zero)

----------------------------------------------------------------------------
(* sparse_proto_to_vectors *)

\* collect() that keeps going and reports the last error
RECURSIVE collect_last_error(_, _, _, _)
collect_last_error(contents, i, acc, e) ==
    IF i > Len(contents) THEN (IF e.ok THEN Ok(acc) ELSE e)
    ELSE LET r == sparse_row_from_bytes(contents[i])
         IN  IF r.ok THEN collect_last_error(contents, i + 1, Append(acc, r.val), e)
             ELSE collect_last_error(contents, i + 1, acc, Err(r.err))

\* contents.iter().map(sparse_row_from_bytes).collect::<Result<Vec<_>>>():
\* stops at the first Err and returns it
RECURSIVE collect(_, _, _)
collect(contents, i, acc) ==
    IF i > Len(contents) THEN Ok(acc)
    ELSE LET r == sparse_row_from_bytes(contents[i])
         IN  IF r.ok THEN collect(contents, i + 1, Append(acc, r.val))
             ELSE Err(r.err)

sparse_proto_to_vectors_last_error(p) ==
    collect_last_error(p.contents, 1, <<>>, Ok(<<>>))

sparse_proto_to_vectors_checking_dim(p) ==
    LET r == collect(p.contents, 1, <<>>)
    IN  IF r.ok /\ Less(p.dim, sparse_vectors_to_proto(r.val).dim)
        THEN Err(Len(p.contents)) ELSE r

sparse_proto_to_vectors(p) == collect(p.contents, 1, <<>>)

----------------------------------------------------------------------------
(* Inputs *)

\* the rows of exactly n entries drawn from es, in every order
RECURSIVE RowsOfLen(_, _)
RowsOfLen(es, n) ==
    IF n = 0 THEN {<<>>}
    ELSE {Append(r, e) : r \in RowsOfLen(es, n - 1), e \in es}

Rows == UNION {RowsOfLen(Entries, n) : n \in 0..MaxEntries}

\* the batches of exactly r rows holding at most k entries together
RECURSIVE BatchesOf(_, _)
BatchesOf(r, k) ==
    IF r = 0 THEN {<<>>}
    ELSE UNION {{<<first>> \o rest : first \in RowsOfLen(Entries, n),
                                     rest \in BatchesOf(r - 1, k - n)}
                : n \in 0..k}

Batches == UNION {BatchesOf(r, MaxEntries) : r \in 0..MaxRows}

\* a received buffer: the records of a row in the order given (not sorted),
\* with the last c bytes missing
Truncated(r, c) ==
    LET b == extend_bytes(r) IN SubSeq(b, 1, Len(b) - c)

Buffers ==
    {Truncated(r, c) : r \in Rows \ {<<>>}, c \in 0..(ChunkLen - 1)} \cup {<<>>}

WireBuffersOf(n) ==
    IF n = 0 THEN {<<>>}
    ELSE {Truncated(r, c) : r \in RowsOfLen(WireEntries, n), c \in WireCuts}

\* the contents of exactly r buffers holding at most k records together
RECURSIVE ContentsOf(_, _)
ContentsOf(r, k) ==
    IF r = 0 THEN {<<>>}
    ELSE UNION {{<<first>> \o rest : first \in WireBuffersOf(n),
                                     rest \in ContentsOf(r - 1, k - n)}
                : n \in 0..k}

Messages ==
    [contents : UNION {ContentsOf(r, MaxEntries) : r \in 0..MaxBuffers}, dim : Dims]

----------------------------------------------------------------------------
(* The caller *)

\* the caller holds a row, a received buffer, a batch, or a received message
Init ==
    \/ /\ pc = "row"
       /\ input_row \in Rows /\ row = input_row
       /\ bytes = <<>> /\ decoded = None
       /\ vectors = <<>> /\ proto = NoProto /\ parsed = None
       /\ twin = NoProto /\ twin_parsed = None /\ proto2 = NoProto
    \/ /\ pc = "buffer"
       /\ bytes \in Buffers
       /\ input_row = <<>> /\ row = <<>> /\ decoded = None
       /\ vectors = <<>> /\ proto = NoProto /\ parsed = None
       /\ twin = NoProto /\ twin_parsed = None /\ proto2 = NoProto
    \/ /\ pc = "batch"
       /\ vectors \in Batches
       /\ input_row = <<>> /\ row = <<>> /\ bytes = <<>> /\ decoded = None
       /\ proto = NoProto /\ parsed = None
       /\ twin = NoProto /\ twin_parsed = None /\ proto2 = NoProto
    \/ /\ pc = "message"
       /\ proto \in Messages
       /\ input_row = <<>> /\ row = <<>> /\ bytes = <<>> /\ decoded = None
       /\ vectors = <<>> /\ parsed = None
       /\ twin = NoProto /\ twin_parsed = None /\ proto2 = NoProto

\* let bytes = sparse_row_to_bytes(&mut row);
SparseRowToBytes ==
    /\ pc = "row"
    /\ LET r == sparse_row_to_bytes(row)
       IN  row' = r.row /\ bytes' = r.bytes
    /\ pc' = "row_bytes"
    /\ UNCHANGED <<input_row, decoded, vectors, proto, parsed, twin,
                   twin_parsed, proto2>>

\* let decoded = sparse_row_from_bytes(&bytes);
SparseRowFromBytes ==
    /\ pc \in {"row_bytes", "buffer"}
    /\ decoded' = sparse_row_from_bytes(bytes)
    /\ pc' = IF pc = "buffer" THEN "buffer_decoded" ELSE "row_decoded"
    /\ UNCHANGED <<input_row, row, bytes, vectors, proto, parsed, twin,
                   twin_parsed, proto2>>

\* let proto = sparse_vectors_to_proto(vectors);
SparseVectorsToProto ==
    /\ pc = "batch"
    /\ proto' = sparse_vectors_to_proto(vectors)
    /\ pc' = "encoded"
    /\ UNCHANGED <<input_row, row, bytes, decoded, vectors, parsed, twin,
                   twin_parsed, proto2>>

\* let parsed = sparse_proto_to_vectors(&proto);
SparseProtoToVectors ==
    /\ pc \in {"encoded", "message"}
    /\ parsed' = sparse_proto_to_vectors(proto)
    /\ pc' = IF pc = "message" THEN "message_parsed" ELSE "parsed"
    /\ UNCHANGED <<input_row, row, bytes, decoded, vectors, proto, twin,
                   twin_parsed, proto2>>

\* the same contents under another dim, decoded as well
SparseProtoToVectorsTwin ==
    /\ pc = "message_parsed"
    /\ \E d \in Dims \ {proto.dim} :
          /\ twin' = [contents |-> proto.contents, dim |-> d]
          /\ twin_parsed' = sparse_proto_to_vectors(twin')
    /\ pc' = "twin_parsed"
    /\ UNCHANGED <<input_row, row, bytes, decoded, vectors, proto, parsed,
                   proto2>>

\* let proto2 = sparse_vectors_to_proto(parsed.unwrap());
SparseVectorsToProtoAgain ==
    /\ pc = "parsed"
    /\ parsed.ok
    /\ proto2' = sparse_vectors_to_proto(parsed.val)
    /\ pc' = "reencoded"
    /\ UNCHANGED <<input_row, row, bytes, decoded, vectors, proto, parsed,
                   twin, twin_parsed>>

Next ==
    \/ SparseRowToBytes
    \/ SparseRowFromBytes
    \/ SparseVectorsToProto
    \/ SparseProtoToVectors
    \/ SparseProtoToVectorsTwin
    \/ SparseVectorsToProtoAgain

Spec == Init /\ [][Next]_vars

----------------------------------------------------------------------------
(* Properties *)

Ascending(r) == \A k \in 1..(Len(r) - 1) : LessEq(r[k][1], r[k + 1][1])

Count(r, e) == Cardinality({k \in 1..Len(r) : r[k] = e})

SameMultiset(a, b) ==
    /\ Len(a) = Len(b)
    /\ \A k \in 1..Len(a) : Count(a, a[k]) = Count(b, a[k])

\* the u32 whose little-endian bytes are b[o+1..o+4]
WordAt(b, o) == << b[o + 3] + 256 * b[o + 4], b[o + 1] + 256 * b[o + 2] >>

\* the record at chunk k of buffer b
RecordAt(b, k) == << WordAt(b, 8 * (k - 1)), WordAt(b, 8 * (k - 1) + 4) >>

Malformed(b) == Len(b) % 8 # 0

\* d = m + 1, for an i64 d and a u32 m
OneMore(d, m) ==
    \/ m[2] < 65535 /\ d = <<m[1], m[2] + 1>>
    \/ m[2] = 65535 /\ d = <<m[1] + 1, 0>>

IndicesOf(vs) ==
    UNION {{vs[i][k][1] : k \in 1..Len(vs[i])} : i \in 1..Len(vs)}

\* C1: decoding the message that sparse_vectors_to_proto produced succeeds and
\* returns as many rows as the batch had, in the same order; row i holds the
\* same multiset of (index, value) pairs as input row i, ascending by index.
RoundTrip ==
    pc \in {"parsed", "reencoded"} =>
        /\ parsed.ok
        /\ Len(parsed.val) = Len(vectors)
        /\ \A i \in 1..Len(vectors) :
              /\ SameMultiset(parsed.val[i], vectors[i])
              /\ Ascending(parsed.val[i])

RoundTripWitness ==
    /\ pc = "parsed"
    /\ parsed.ok
    /\ Len(vectors) = 2
    /\ Len(vectors[1]) = 2
    /\ ~Ascending(vectors[1])
    /\ vectors[2] # <<>>
    /\ parsed.val[1] # vectors[1]

\* C2: the dim of the encoded message is 0 exactly when the batch has no entry
\* at all, and otherwise is 1 plus the largest index of any entry of any row.
DimCorrect ==
    pc \in {"encoded", "parsed", "reencoded"} =>
        LET idx == IndicesOf(vectors)
        IN  /\ (proto.dim = <<0, 0>>) <=> (idx = {})
            /\ idx # {} =>
                  \E m \in idx :
                      /\ \A x \in idx : LessEq(x, m)
                      /\ OneMore(proto.dim, m)

DimCorrectWitness ==
    /\ pc = "encoded"
    /\ Len(vectors) = 2
    /\ Len(vectors[1]) = 2
    /\ vectors[1][1][1] = <<65535, 65534>>
    /\ vectors[1][2][1] = <<0, 3>>
    /\ Len(vectors[2]) = 1
    /\ vectors[2][1][1] = <<1, 65535>>
    /\ proto.dim = <<65535, 65535>>

\* C3: sparse_row_from_bytes fails exactly when the buffer length is not a
\* multiple of 8, the error reports that length, and a buffer whose length is
\* a multiple of 8 (0 included) decodes to length / 8 entries.
LengthValidation ==
    pc \in {"buffer_decoded", "row_decoded"} =>
        /\ (~decoded.ok) <=> (Len(bytes) % 8 # 0)
        /\ ~decoded.ok => decoded.err = Len(bytes)
        /\ decoded.ok => Len(decoded.val) = Len(bytes) \div 8

LengthValidationWitness ==
    /\ pc = "buffer_decoded"
    /\ Len(bytes) = 23
    /\ ~decoded.ok
    /\ decoded.err = 23

\* C4: sparse_proto_to_vectors is all-or-nothing: with a malformed buffer in
\* contents it returns an error and no rows, the error of the first malformed
\* buffer; otherwise it returns one decoded row per buffer, in contents order.
AllOrNothing ==
    pc \in {"message_parsed", "twin_parsed"} =>
        LET c == proto.contents
            bad == {i \in 1..Len(c) : Malformed(c[i])}
        IN  IF bad # {}
            THEN /\ ~parsed.ok
                 /\ parsed.val = <<>>
                 /\ \E i \in bad :
                       /\ \A j \in bad : i <= j
                       /\ parsed.err = Len(c[i])
            ELSE /\ parsed.ok
                 /\ Len(parsed.val) = Len(c)
                 /\ \A i \in 1..Len(c) :
                       /\ Len(parsed.val[i]) = Len(c[i]) \div 8
                       /\ \A k \in 1..Len(parsed.val[i]) :
                             parsed.val[i][k] = RecordAt(c[i], k)

AllOrNothingWitness ==
    /\ pc = "message_parsed"
    /\ Len(proto.contents) = 3
    /\ ~Malformed(proto.contents[1])
    /\ proto.contents[1] # <<>>
    /\ Malformed(proto.contents[2])
    /\ Malformed(proto.contents[3])
    /\ Len(proto.contents[2]) # Len(proto.contents[3])
    /\ ~parsed.ok
    /\ parsed.err = Len(proto.contents[2])

\* C5: the buffer sparse_row_to_bytes returns for a row of n entries has 8 * n
\* bytes, one record per entry in ascending index order: bytes 0-3 the index,
\* bytes 4-7 the value pattern, both little-endian; an empty row gives no bytes.
RowLayout ==
    pc \in {"row_bytes", "row_decoded"} =>
        /\ Len(bytes) = 8 * Len(input_row)
        /\ SameMultiset(row, input_row)
        /\ Ascending(row)
        /\ \A k \in 1..Len(row) :
              LET o == 8 * (k - 1)
                  index == row[k][1]
                  value == row[k][2]
              IN  /\ bytes[o + 1] = index[2] % 256
                  /\ bytes[o + 2] = index[2] \div 256
                  /\ bytes[o + 3] = index[1] % 256
                  /\ bytes[o + 4] = index[1] \div 256
                  /\ bytes[o + 5] = value[2] % 256
                  /\ bytes[o + 6] = value[2] \div 256
                  /\ bytes[o + 7] = value[1] % 256
                  /\ bytes[o + 8] = value[1] \div 256

RowLayoutWitness ==
    /\ pc = "row_bytes"
    /\ Len(input_row) = 3
    /\ ~Ascending(input_row)
    /\ Len(bytes) = 24
    /\ <<bytes[1], bytes[2], bytes[3], bytes[4]>> = <<255, 255, 1, 0>>
    /\ <<bytes[5], bytes[6], bytes[7], bytes[8]>> = <<205, 204, 204, 61>>

\* C6: whatever the order of the input row, the entries decoded from the
\* buffer of sparse_row_to_bytes have non-decreasing indices, and the caller's
\* row is left in that same order.
Sortedness ==
    pc = "row_decoded" =>
        /\ decoded.ok
        /\ Ascending(decoded.val)
        /\ row = decoded.val

SortednessWitness ==
    /\ pc = "row_decoded"
    /\ Len(input_row) = 3
    /\ Less(input_row[3][1], input_row[2][1])
    /\ Less(input_row[2][1], input_row[1][1])
    /\ row # input_row

\* C7: entries that share an index all stay in the buffer as separate records,
\* in the relative order they had in the input row.
Stability ==
    pc = "row_decoded" =>
        /\ decoded.ok
        /\ Len(decoded.val) = Len(input_row)
        /\ \A d \in Indices :
              SelectSeq(decoded.val, LAMBDA e : e[1] = d)
                  = SelectSeq(input_row, LAMBDA e : e[1] = d)

StabilityWitness ==
    /\ pc = "row_decoded"
    /\ Len(input_row) = 3
    /\ input_row[1][1] = input_row[3][1]
    /\ input_row[1][2] # input_row[3][2]
    /\ Less(input_row[2][1], input_row[1][1])
    /\ decoded.val = <<input_row[2], input_row[1], input_row[3]>>

\* C8: for a buffer whose length is a multiple of 8, sparse_row_from_bytes
\* returns entry k built from bytes 8k..8k+7, in chunk order, also when the
\* indices in the buffer are not ascending or are repeated.
ChunkOrder ==
    (pc = "buffer_decoded" /\ Len(bytes) % 8 = 0) =>
        /\ decoded.ok
        /\ Len(decoded.val) = Len(bytes) \div 8
        /\ \A k \in 1..Len(decoded.val) : decoded.val[k] = RecordAt(bytes, k)

ChunkOrderWitness ==
    /\ pc = "buffer_decoded"
    /\ decoded.ok
    /\ Len(decoded.val) = 3
    /\ Less(decoded.val[2][1], decoded.val[1][1])
    /\ decoded.val[3][1] = decoded.val[1][1]

\* C9: two messages with the same contents and different dim values decode to
\* the same outcome, the same rows or the same error.
DimIgnored ==
    pc = "twin_parsed" =>
        /\ twin.contents = proto.contents
        /\ twin.dim # proto.dim
        /\ twin_parsed = parsed

DimIgnoredWitness ==
    /\ pc = "twin_parsed"
    /\ parsed.ok
    /\ Len(parsed.val) = 2
    /\ parsed.val[1] # <<>>
    /\ proto.dim = <<0, 0>>
    /\ twin.dim = <<-1, 65535>>

\* C10: encoding a batch, decoding the message and encoding the decoded rows
\* again gives the first message again: the same contents and the same dim.
FixedPoint ==
    pc = "reencoded" =>
        /\ proto2.contents = proto.contents
        /\ proto2.dim = proto.dim

FixedPointWitness ==
    /\ pc = "reencoded"
    /\ Len(vectors) = 2
    /\ Len(vectors[1]) = 2
    /\ ~Ascending(vectors[1])
    /\ vectors[2] # <<>>
    /\ proto2.dim = <<65535, 65535>>

====
